---- MODULE Spec2Model ----
(***************************************************************************)
(* Model of src/lead_api.py: the /api/search handler, the retriever        *)
(* Scrap_News and the extractor ExtractContent.                            *)
(*                                                                         *)
(* Text is modelled at token level.  A query is a sequence of characters.  *)
(* An LLM reply is a sequence of tokens: the characters "[", "]" and ","   *)
(* (wherever they occur in the reply), a prose word "p" (bracket-free text *)
(* that is no JSON), whitespace "w", and bracket-free JSON literals: the   *)
(* objects "O1" (all seven lead fields, no id), "O2" (all fields plus an   *)
(* LLM-invented id "1"), "O3" (only a name), "{}", the strings "str:id"      *)
(* ("id") and "str:s" (a string without "id" in it), and the literal       *)
(* "true".  A dict with optional keys is a record whose missing keys hold  *)
(* Absent.                                                                 *)
(***************************************************************************)
EXTENDS Naturals, Sequences, FiniteSets

VARIABLES
    tavily_api_key,     \* module global, line 29
    model_api_key,      \* module global, line 28
    tavily_client,      \* module global, lines 32-36 (TRUE: a client object)
    groq_client,        \* module global, lines 33-39
    pc,                 \* position of the running call
    query,              \* argument of search / topic / query of the callees
    tavily_response,    \* what tavily_client.search gave Scrap_News (line 47)
    retrieved_content,  \* the blob, line 52 / line 168
    prompt,             \* the prompt sent to the LLM, line 64
    reply,              \* completion text, line 124
    json_str,           \* the text handed to json.loads, lines 131-135
    results,            \* return value of ExtractContent, line 171
    raised,             \* exception description a callee raised, or NoError
    printed,            \* diagnostics printed by ExtractContent, lines 143-148
    calls,              \* external provider calls made by the running request
    responses           \* HTTP responses produced for the running request

vars == << tavily_api_key, model_api_key, tavily_client, groq_client, pc, query,
           tavily_response, retrieved_content, prompt, reply, json_str, results,
           raised, printed, calls, responses >>

----------------------------------------------------------------------------
(* Bounds *)

MaxResults == 2
MaxPipeResults == 1
MaxReply == 4
MaxLeads == 2

----------------------------------------------------------------------------
(* Python values *)

Absent == "<absent>"
NoneKey == "<None>"
NoError == <<>>

Truthy(key) == key # NoneKey /\ key # ""

AllSeqs(S, n) == UNION { [1..k -> S] : k \in 0..n }

LeadFields == {"name", "title", "company", "email", "phone", "source", "location"}

EmptyDict ==
    [id |-> Absent, name |-> Absent, title |-> Absent, company |-> Absent,
     email |-> Absent, phone |-> Absent, source |-> Absent, location |-> Absent]

FullDict ==
    [id |-> Absent, name |-> "A", title |-> "B", company |-> "C",
     email |-> "", phone |-> "", source |-> "X", location |-> ""]

NoneValue == [t |-> "none", d |-> EmptyDict, items |-> <<>>, s |-> ""]
DictValue(d) == [t |-> "dict", d |-> d, items |-> <<>>, s |-> ""]
StrValue(s) == [t |-> "str", d |-> EmptyDict, items |-> <<>>, s |-> s]
BoolValue(s) == [t |-> "bool", d |-> EmptyDict, items |-> <<>>, s |-> s]
ListValue(items) == [t |-> "list", d |-> EmptyDict, items |-> items, s |-> ""]

----------------------------------------------------------------------------
(* Scrap_News, lines 41-57 *)

SearchResults ==
    [url : {Absent, "u"}, title : {Absent, "t"}, content : {Absent, "", "c"}]

\* What tavily_client.search can do: raise, return None, or return a dict
\* with or without the key "results" and with or without other keys.
ProviderRaise == [kind |-> "raise", has_results |-> FALSE, other_keys |-> FALSE, results |-> <<>>]
ProviderNone == [kind |-> "none", has_results |-> FALSE, other_keys |-> FALSE, results |-> <<>>]
NoResponse == [kind |-> "unset", has_results |-> FALSE, other_keys |-> FALSE, results |-> <<>>]

SearchOutcomes(n) ==
    {ProviderRaise, ProviderNone}
    \cup { [kind |-> "dict", has_results |-> FALSE, other_keys |-> o, results |-> <<>>] :
             o \in BOOLEAN }
    \cup { [kind |-> "dict", has_results |-> TRUE, other_keys |-> o, results |-> rs] :
             o \in BOOLEAN, rs \in AllSeqs(SearchResults, n) }

\* `not response`: None and the empty dict are falsy
ResponseFalsy(response) ==
    \/ response.kind = "none"
    \/ response.kind = "dict" /\ ~response.has_results /\ ~response.other_keys

\* dict.get(key, default)
Get(value, default) == IF value = Absent THEN default ELSE value

\* the f-string of line 53: four lines of text
Block(result) ==
    << <<"Source: ", Get(result.url, "Unknown")>>,
       <<"Title: ", Get(result.title, "Unknown")>>,
       <<"Content: ", Get(result.content, "No content")>>,
       <<"---", "">> >>

\* variant of KeepResult: keeps only a result whose content is a non-empty string
KeepResult_NonEmpty(result) == result.content \notin {Absent, ""}

\* the condition of the comprehension, line 54: `"content" in result`
KeepResult(result) == result.content # Absent

RECURSIVE Comprehension(_, _)
Comprehension(rs, i) ==
    IF i > Len(rs) THEN <<>>
    ELSE IF KeepResult(rs[i]) THEN <<Block(rs[i])>> \o Comprehension(rs, i + 1)
    ELSE Comprehension(rs, i + 1)

\* "\n".join(blocks): the lines of the blocks, one after the other
RECURSIVE Join(_)
Join(blocks) ==
    IF blocks = <<>> THEN <<>> ELSE Head(blocks) \o Join(Tail(blocks))

Returned(value, called) == [raised |-> NoError, value |-> value, called |-> called]
Raised(msg, called) == [raised |-> msg, value |-> <<>>, called |-> called]

\* variant of Scrap_News: the check of line 49 left out
Scrap_News_NoValidate(topic, client, outcome) ==
    IF ~client
    THEN Raised(<<"ValueError", "Tavily API key is missing. Set TAVILY_API_KEY in your .env file.">>, FALSE)
    ELSE IF outcome.kind = "raise"
    THEN Raised(<<"Exception", "tavily_client.search failed">>, TRUE)
    ELSE Returned(Join(Comprehension(outcome.results, 1)), TRUE)

Scrap_News(topic, client, outcome) ==
    IF ~client
    THEN Raised(<<"ValueError", "Tavily API key is missing. Set TAVILY_API_KEY in your .env file.">>, FALSE)
    ELSE IF outcome.kind = "raise"
    THEN Raised(<<"Exception", "tavily_client.search failed">>, TRUE)
    ELSE IF ResponseFalsy(outcome) \/ ~outcome.has_results
    THEN Raised(<<"ValueError", "Invalid response from Tavily API.">>, TRUE)
    ELSE Returned(Join(Comprehension(outcome.results, 1)), TRUE)

----------------------------------------------------------------------------
(* json.loads and re.search as ExtractContent uses them, lines 129-135 *)

Literals == {"O1", "O2", "O3", "{}", "str:id", "str:s", "true"}
Tokens == {"[", "]", ",", "p", "w"} \cup Literals

TokenValue(tok) ==
    CASE tok = "O1" -> DictValue(FullDict)
      [] tok = "O2" -> DictValue([FullDict EXCEPT !.id = "1"])
      [] tok = "O3" -> DictValue([EmptyDict EXCEPT !.name = "A"])
      [] tok = "{}" -> DictValue(EmptyDict)
      [] tok = "str:id" -> StrValue("id")
      [] tok = "str:s" -> StrValue("s")
      [] tok = "true" -> BoolValue("true")

ParseOk(val, next) == [ok |-> TRUE, val |-> val, next |-> next]
ParseFail == [ok |-> FALSE, val |-> NoneValue, next |-> 0]

\* the index of the first token at or after i that is not whitespace
RECURSIVE SkipWs(_, _)
SkipWs(toks, i) ==
    IF i <= Len(toks) /\ toks[i] = "w" THEN SkipWs(toks, i + 1) ELSE i

RECURSIVE ParseValue(_, _)
RECURSIVE ParseItems(_, _, _)

\* one JSON value starting at token i (whitespace before it already skipped)
ParseValue(toks, i) ==
    IF i > Len(toks) THEN ParseFail
    ELSE IF toks[i] \in Literals THEN ParseOk(TokenValue(toks[i]), i + 1)
    ELSE IF toks[i] = "["
    THEN LET j == SkipWs(toks, i + 1)
         IN  IF j <= Len(toks) /\ toks[j] = "]"
             THEN ParseOk(ListValue(<<>>), j + 1)
             ELSE ParseItems(toks, j, <<>>)
    ELSE ParseFail

\* the items of an array after "[": value ("," value)* "]"
ParseItems(toks, i, acc) ==
    LET r == ParseValue(toks, i)
    IN  IF ~r.ok THEN ParseFail
        ELSE LET j == SkipWs(toks, r.next)
             IN  IF j > Len(toks) THEN ParseFail
                 ELSE IF toks[j] = ","
                 THEN ParseItems(toks, SkipWs(toks, j + 1), Append(acc, r.val))
                 ELSE IF toks[j] = "]"
                 THEN ParseOk(ListValue(Append(acc, r.val)), j + 1)
                 ELSE ParseFail

\* json.loads: one value, whitespace around it, nothing after it
json_loads(toks) ==
    LET r == ParseValue(toks, SkipWs(toks, 1))
    IN  IF ~r.ok THEN ParseFail
        ELSE IF SkipWs(toks, r.next) <= Len(toks) THEN ParseFail
        ELSE r

\* index of the first c at or after i, 0 when there is none
RECURSIVE FirstIndex(_, _, _)
FirstIndex(toks, c, i) ==
    IF i > Len(toks) THEN 0
    ELSE IF toks[i] = c THEN i
    ELSE FirstIndex(toks, c, i + 1)

\* index of the last c at or before i, 0 when there is none
RECURSIVE LastIndex(_, _, _)
LastIndex(toks, c, i) ==
    IF i < 1 THEN 0
    ELSE IF toks[i] = c THEN i
    ELSE LastIndex(toks, c, i - 1)

\* variant of re_search: a lazy quantifier, "[" to the first "]" after it
re_search_NonGreedy(response) ==
    LET from == FirstIndex(response, "[", 1)
        to == IF from > 0 THEN FirstIndex(response, "]", from + 1) ELSE 0
    IN  IF from > 0 /\ to > from
        THEN [found |-> TRUE, group |-> SubSeq(response, from, to)]
        ELSE [found |-> FALSE, group |-> <<>>]

\* re.search(r'\[[\s\S]*\]', response): leftmost "[", then greedy to the last "]"
re_search(response) ==
    LET from == FirstIndex(response, "[", 1)
        to == LastIndex(response, "]", Len(response))
    IN  IF from > 0 /\ to > from
        THEN [found |-> TRUE, group |-> SubSeq(response, from, to)]
        ELSE [found |-> FALSE, group |-> <<>>]

\* `not leads`
Falsy(v) ==
    \/ v.t = "none"
    \/ v.t = "list" /\ v.items = <<>>
    \/ v.t = "dict" /\ v.d = EmptyDict
    \/ v.t = "str" /\ v.s = ""

\* len(leads) raises TypeError for a value that has no length
HasLen(v) == v.t \in {"list", "dict", "str"}

----------------------------------------------------------------------------
(* ExtractContent, lines 59-148 *)

LlmRaise == [kind |-> "raise", text |-> <<>>]
LlmText(text) == [kind |-> "text", text |-> text]

Extracted(msg, value, called, text, parsed, out) ==
    [raised |-> msg, value |-> value, called |-> called, reply |-> text,
     json_str |-> parsed, printed |-> out]

\* variant of HandleJSONDecodeError: the handler returns an empty list
HandleJSONDecodeError_EmptyList(response, text) ==
    Extracted(NoError, ListValue(<<>>), TRUE, response, text,
              << <<"Failed to parse JSON from response", <<>> >>,
                 <<"Raw response: ", response>> >>)

\* variant of HandleException: the handler returns an empty list
HandleException_EmptyList(response, text, msg) ==
    Extracted(NoError, ListValue(<<>>), TRUE, response, text,
              << <<"Error extracting leads: ", msg>>,
                 <<"Raw response: ", response>> >>)

\* the except clauses, lines 142-148: print and fall off the end of the function
HandleJSONDecodeError(response, text) ==
    Extracted(NoError, NoneValue, TRUE, response, text,
              << <<"Failed to parse JSON from response", <<>> >>,
                 <<"Raw response: ", response>> >>)

HandleException(response, text, msg) ==
    Extracted(NoError, NoneValue, TRUE, response, text,
              << <<"Error extracting leads: ", msg>>,
                 <<"Raw response: ", response>> >>)

\* the try block, lines 126-141
TryParse(response) ==
    LET json_match == re_search(response)
        text == IF json_match.found THEN json_match.group ELSE response
        r == json_loads(text)
    IN  IF ~r.ok THEN HandleJSONDecodeError(response, text)
        ELSE IF Falsy(r.val)
        THEN HandleException(response, text, <<"No leads extracted from content">>)
        ELSE IF ~HasLen(r.val)
        THEN HandleException(response, text, <<"TypeError: object has no len()">>)
        ELSE Extracted(NoError, r.val, TRUE, response, text, <<>>)

ExtractContent(content, q, client, outcome) ==
    IF ~client
    THEN Extracted(<<"ValueError", "Groq API key is missing. Set GROQ_API_KEY in your .env file.">>,
                   NoneValue, FALSE, <<>>, <<>>, <<>>)
    ELSE IF outcome.kind = "raise"
    THEN Extracted(<<"Exception", "groq_client.chat.completions.create failed">>,
                   NoneValue, TRUE, <<>>, <<>>, <<>>)
    ELSE TryParse(outcome.text)

\* the prompt of line 64 embeds the query and the content
Prompt(content, q) == [query |-> q, content |-> content]

----------------------------------------------------------------------------
(* search, lines 155-193 *)

Queries == {<<>>, <<" ">>, <<" ", " ">>, <<"a">>, <<" ", "a", " ">>}

\* str.strip(): drop the whitespace at both ends
RECURSIVE lstrip(_)
lstrip(q) == IF q # <<>> /\ Head(q) = " " THEN lstrip(Tail(q)) ELSE q

RECURSIVE rstrip(_)
rstrip(q) ==
    IF q # <<>> /\ q[Len(q)] = " " THEN rstrip(SubSeq(q, 1, Len(q) - 1)) ELSE q

strip(q) == rstrip(lstrip(q))

\* variant of Blank: the strip() left out
Blank_NoStrip(q) == q = <<>>

\* the condition of line 157
Blank(q) == q = <<>> \/ strip(q) = <<>>

\* variant of KeysMissing: only the search credential is looked at
KeysMissing_TavilyOnly == ~Truthy(tavily_api_key)

\* the condition of line 162
KeysMissing == ~Truthy(tavily_api_key) \/ ~Truthy(model_api_key)

\* str(n) for the positions the model reaches
Str(n) == <<"1", "2", "3", "4", "5", "6", "7", "8", "9">>[n]

\* variant of IdIn: every lead is given its position, whatever it carries
IdIn_Never(lead) == FALSE

\* `"id" in lead`, for the values that support `in`
IdIn(lead) ==
    CASE lead.t = "dict" -> lead.d.id # Absent
      [] lead.t = "str" -> lead.s = "id"
      [] lead.t = "list" -> \E k \in 1..Len(lead.items) : lead.items[k] = StrValue("id")
      [] OTHER -> FALSE

\* variant of SetId: the fields the lead lacks are filled with ""
SetId_Defaulting(lead, value) ==
    DictValue([f \in DOMAIN lead.d |->
                 IF f = "id" THEN value
                 ELSE IF lead.d[f] = Absent THEN "" ELSE lead.d[f]])

\* lead["id"] = value, line 179
SetId(lead, value) == DictValue([lead.d EXCEPT !.id = value])

\* the loop of lines 177-179; i counts from 0 as enumerate does
RECURSIVE AssignIds(_, _)
AssignIds(leads, i) ==
    IF i >= Len(leads) THEN [raised |-> NoError, leads |-> leads]
    ELSE LET lead == leads[i + 1]
         IN  IF lead.t \notin {"dict", "str", "list"}
             THEN [raised |-> <<"TypeError", "argument is not iterable">>, leads |-> leads]
             ELSE IF IdIn(lead) THEN AssignIds(leads, i + 1)
             ELSE IF lead.t = "dict"
             THEN AssignIds([leads EXCEPT ![i + 1] = SetId(lead, Str(i + 1))], i + 1)
             ELSE [raised |-> <<"TypeError", "object does not support item assignment">>,
                   leads |-> leads]

NoException == [by |-> "", exc |-> NoError]

\* HTTPException(status_code, detail) as the response the framework sends
HttpError(status, detail) ==
    [status |-> status, detail |-> detail, success |-> FALSE, query |-> <<>>,
     timestamp |-> "", results |-> NoneValue]

\* line 158
EmptyQueryResponse == HttpError(400, <<"Search query cannot be empty">>)

\* variant of ErrorResponse: the handler answers with an empty success envelope
ErrorResponse_Swallow(exc) ==
    [status |-> 200, detail |-> <<>>, success |-> TRUE, query |-> <<>>,
     timestamp |-> "2025-05-09T00:00:00Z", results |-> ListValue(<<>>)]

\* lines 191-193: str(e) behind a fixed prefix
ErrorResponse(exc) == HttpError(500, <<"Error processing search query: ">> \o exc)

\* lines 181-186
SuccessResponse(q, leads) ==
    [status |-> 200, detail |-> <<>>, success |-> TRUE, query |-> q,
     timestamp |-> "2025-05-09T00:00:00Z", results |-> leads]

CallRecord(api, kind, has_results) ==
    [api |-> api, kind |-> kind, has_results |-> has_results]

\* a new call of the handler: its locals are fresh
NewRequest(q) ==
    /\ pc \in {"idle", "done"}
    /\ query' = q
    /\ retrieved_content' = <<>>
    /\ prompt' = Prompt(<<>>, <<>>)
    /\ reply' = <<>>
    /\ json_str' = <<>>
    /\ results' = NoneValue
    /\ printed' = <<>>
    /\ calls' = <<>>
    /\ UNCHANGED << tavily_api_key, model_api_key, tavily_client, groq_client,
                    tavily_response >>

\* lines 157-158
SearchBlank ==
    \E q \in Queries :
        /\ NewRequest(q)
        /\ Blank(q)
        /\ raised' = NoException
        /\ responses' = <<EmptyQueryResponse>>
        /\ pc' = "done"

\* lines 160-163, 191-193 with a credential unset
SearchKeysMissing ==
    \E q \in Queries :
        /\ NewRequest(q)
        /\ ~Blank(q)
        /\ KeysMissing
        /\ LET exc == <<"ValueError", "API keys are missing. Make sure both TAVILY_API_KEY and GROQ_API_KEY are set in your .env file.">>
           IN  /\ raised' = [by |-> "search", exc |-> exc]
               /\ responses' = <<ErrorResponse(exc)>>
        /\ pc' = "done"

\* lines 157-163 passed: the handler goes on to line 168
SearchAccept ==
    \E q \in Queries :
        /\ NewRequest(q)
        /\ ~Blank(q)
        /\ ~KeysMissing
        /\ raised' = NoException
        /\ responses' = <<>>
        /\ pc' = "scrap"

PipeSearchOutcomes == SearchOutcomes(MaxPipeResults)

\* line 168: the call of Scrap_News, and lines 191-193 when it raises
SearchScrapNews ==
    /\ pc = "scrap"
    /\ \E outcome \in PipeSearchOutcomes :
         LET r == Scrap_News(query, tavily_client, outcome)
         IN  /\ calls' = IF r.called
                         THEN Append(calls, CallRecord("search", outcome.kind, outcome.has_results))
                         ELSE calls
             /\ IF r.raised # NoError
                THEN /\ raised' = [by |-> "Scrap_News", exc |-> r.raised]
                     /\ responses' = Append(responses, ErrorResponse(r.raised))
                     /\ pc' = "done"
                     /\ UNCHANGED retrieved_content
                ELSE /\ retrieved_content' = r.value
                     /\ pc' = "extract"
                     /\ UNCHANGED << raised, responses >>
    /\ UNCHANGED << tavily_api_key, model_api_key, tavily_client, groq_client, query,
                    tavily_response, prompt, reply, json_str, results, printed >>

\* "[" e1 "," e2 ... "]"
RECURSIVE Commas(_)
Commas(elems) ==
    IF Len(elems) <= 1 THEN elems
    ELSE <<Head(elems), ",">> \o Commas(Tail(elems))

ArrayText(elems) == <<"[">> \o Commas(elems) \o <<"]">>

Elements == Literals
Prefixes == {<<>>, <<"p", "w">>}
Suffixes == {<<>>, <<"w", "p">>}

\* an array of at most n elements, with or without prose around it
Wrapped(n) ==
    { pre \o ArrayText(elems) \o post :
        pre \in Prefixes, elems \in AllSeqs(Elements, n), post \in Suffixes }

PipeReplies == AllSeqs(Tokens, 1) \cup Wrapped(MaxLeads)

PipeLlmOutcomes == {LlmRaise} \cup { LlmText(text) : text \in PipeReplies }

\* line 171: the call of ExtractContent, and lines 191-193 when it raises
SearchExtractContent ==
    /\ pc = "extract"
    /\ \E outcome \in PipeLlmOutcomes :
         LET r == ExtractContent(retrieved_content, query, groq_client, outcome)
         IN  /\ calls' = IF r.called
                         THEN Append(calls, CallRecord("llm", outcome.kind, FALSE))
                         ELSE calls
             /\ prompt' = IF r.called THEN Prompt(retrieved_content, query) ELSE prompt
             /\ reply' = r.reply
             /\ json_str' = r.json_str
             /\ printed' = r.printed
             /\ results' = r.value
             /\ IF r.raised # NoError
                THEN /\ raised' = [by |-> "ExtractContent", exc |-> r.raised]
                     /\ responses' = Append(responses, ErrorResponse(r.raised))
                     /\ pc' = "done"
                ELSE /\ pc' = "respond"
                     /\ UNCHANGED << raised, responses >>
    /\ UNCHANGED << tavily_api_key, model_api_key, tavily_client, groq_client, query,
                    tavily_response, retrieved_content >>

\* lines 173-193
SearchRespond ==
    /\ pc = "respond"
    /\ IF results.t = "list"
       THEN LET a == AssignIds(results.items, 0)
            IN  /\ results' = ListValue(a.leads)
                /\ IF a.raised # NoError
                   THEN /\ raised' = [by |-> "search", exc |-> a.raised]
                        /\ responses' = Append(responses, ErrorResponse(a.raised))
                   ELSE /\ responses' = Append(responses, SuccessResponse(query, ListValue(a.leads)))
                        /\ UNCHANGED raised
       ELSE LET exc == <<"HTTPException", "500: Failed to extract leads: ", results.t>>
            IN  /\ raised' = [by |-> "search", exc |-> exc]
                /\ responses' = Append(responses, ErrorResponse(exc))
                /\ UNCHANGED results
    /\ pc' = "done"
    /\ UNCHANGED << tavily_api_key, model_api_key, tavily_client, groq_client, query,
                    tavily_response, retrieved_content, prompt, reply, json_str,
                    printed, calls >>

----------------------------------------------------------------------------
(* Module load, lines 25-39, and the specification of the service *)

Keys == {NoneKey, "", "key"}

Loaded(tkey, mkey) ==
    /\ tavily_api_key = tkey
    /\ model_api_key = mkey
    /\ tavily_client = Truthy(tkey)
    /\ groq_client = Truthy(mkey)
    /\ query = <<>>
    /\ retrieved_content = <<>>
    /\ prompt = Prompt(<<>>, <<>>)
    /\ json_str = <<>>
    /\ results = NoneValue
    /\ raised = NoException
    /\ printed = <<>>
    /\ calls = <<>>
    /\ responses = <<>>

Init ==
    /\ \E tkey \in Keys, mkey \in Keys : Loaded(tkey, mkey)
    /\ tavily_response = NoResponse
    /\ reply = <<>>
    /\ pc = "idle"

Next ==
    \/ SearchBlank
    \/ SearchKeysMissing
    \/ SearchAccept
    \/ SearchScrapNews
    \/ SearchExtractContent
    \/ SearchRespond

Spec == Init /\ [][Next]_vars

----------------------------------------------------------------------------
(* Scrap_News called on its own, over every provider outcome *)

InitScrap ==
    /\ \E tkey \in Keys : Loaded(tkey, "key")
    /\ tavily_response \in SearchOutcomes(MaxResults)
    /\ reply = <<>>
    /\ pc = "scrap_call"

ApplyScrapNews ==
    /\ pc = "scrap_call"
    /\ LET r == Scrap_News(query, tavily_client, tavily_response)
       IN  /\ raised' = [by |-> IF r.raised = NoError THEN "" ELSE "Scrap_News", exc |-> r.raised]
           /\ retrieved_content' = r.value
           /\ calls' = IF r.called
                       THEN <<CallRecord("search", tavily_response.kind, tavily_response.has_results)>>
                       ELSE <<>>
    /\ pc' = "scrap_done"
    /\ UNCHANGED << tavily_api_key, model_api_key, tavily_client, groq_client, query,
                    tavily_response, prompt, reply, json_str, results, printed, responses >>

NextScrap == ApplyScrapNews

SpecScrap == InitScrap /\ [][NextScrap]_vars

----------------------------------------------------------------------------
(* ExtractContent called on its own, over every reply of the LLM *)

ExtractReplies == AllSeqs(Tokens, MaxReply) \cup Wrapped(MaxLeads)

InitExtract ==
    /\ Loaded("key", "key")
    /\ tavily_response = NoResponse
    /\ reply \in ExtractReplies
    /\ pc = "extract_call"

ApplyExtractContent ==
    /\ pc = "extract_call"
    /\ LET r == ExtractContent(retrieved_content, query, groq_client, LlmText(reply))
       IN  /\ raised' = [by |-> IF r.raised = NoError THEN "" ELSE "ExtractContent", exc |-> r.raised]
           /\ results' = r.value
           /\ json_str' = r.json_str
           /\ printed' = r.printed
           /\ prompt' = Prompt(retrieved_content, query)
           /\ calls' = <<CallRecord("llm", "text", FALSE)>>
    /\ pc' = "extract_done"
    /\ UNCHANGED << tavily_api_key, model_api_key, tavily_client, groq_client, query,
                    tavily_response, retrieved_content, reply, responses >>

NextExtract == ApplyExtractContent

SpecExtract == InitExtract /\ [][NextExtract]_vars

----------------------------------------------------------------------------
(* Properties of the /api/search handler, checked under Spec *)

\* a query that is empty or holds only whitespace
WhitespaceOnly(q) == \A i \in 1..Len(q) : q[i] = " "

KeyUnset(key) == key = NoneKey \/ key = ""

LlmCalls == { i \in 1..Len(calls) : calls[i].api = "llm" }
SearchCalls == { i \in 1..Len(calls) : calls[i].api = "search" }

OneError(status) ==
    /\ Len(responses) = 1
    /\ responses[1].status = status
    /\ ~responses[1].success

\* C2: a request whose query is empty or only whitespace is answered with
\* exactly one response, 400 "Search query cannot be empty", and neither the
\* search provider nor the LLM provider is called while it runs.
C2_BlankQueryRejected ==
    (pc # "idle" /\ WhitespaceOnly(query)) =>
        /\ pc = "done"
        /\ OneError(400)
        /\ responses[1].detail = <<"Search query cannot be empty">>
        /\ calls = <<>>

C2_Witness ==
    /\ pc = "done"
    /\ query = <<" ", " ">>
    /\ OneError(400)
    /\ calls = <<>>

\* C3: for a non-blank query, when the search credential or the LLM
\* credential is unset the request ends with one 500 response and no provider
\* is called at any point of the request.
C3_MissingKeyNoCall ==
    (pc # "idle" /\ ~WhitespaceOnly(query)
       /\ (KeyUnset(tavily_api_key) \/ KeyUnset(model_api_key))) =>
        /\ pc = "done"
        /\ OneError(500)
        /\ calls = <<>>

C3_Witness ==
    /\ pc = "done"
    /\ query = <<"a">>
    /\ tavily_api_key = "key"
    /\ model_api_key = NoneKey
    /\ OneError(500)
    /\ calls = <<>>

\* C4: when Scrap_News or ExtractContent raised, the request has ended with
\* exactly one response, a 500 whose detail carries the description of the
\* exception, and no response of the request has success=true.
C4_ExceptionGives500 ==
    (raised.by \in {"Scrap_News", "ExtractContent"}) =>
        /\ pc = "done"
        /\ OneError(500)
        /\ responses[1].detail = <<"Error processing search query: ">> \o raised.exc
        /\ \A i \in 1..Len(responses) : ~responses[i].success

C4_Witness ==
    /\ pc = "done"
    /\ raised.by = "ExtractContent"
    /\ raised.exc = <<"Exception", "groq_client.chat.completions.create failed">>
    /\ OneError(500)
    /\ Len(calls) = 2

\* C9: within a request the LLM provider is called at most once, and only as
\* the second call, after a search call that returned a dict with "results";
\* the prompt holds the query and the blob of that search call; after a search
\* call that raised or returned no usable response there is no LLM call and
\* the request has ended with an error response.
C9_SearchThenLlm ==
    /\ Cardinality(LlmCalls) <= 1
    /\ Cardinality(SearchCalls) <= 1
    /\ \A i \in LlmCalls :
         /\ i = 2
         /\ calls[1].api = "search"
         /\ calls[1].kind = "dict"
         /\ calls[1].has_results
         /\ prompt = [query |-> query, content |-> retrieved_content]
    /\ \A i \in SearchCalls :
         ~(calls[i].kind = "dict" /\ calls[i].has_results) =>
             /\ LlmCalls = {}
             /\ pc = "done"
             /\ OneError(500)

C9_Witness ==
    /\ Len(calls) = 2
    /\ calls[1].api = "search"
    /\ calls[2].api = "llm"
    /\ retrieved_content # <<>>
    /\ prompt.content = retrieved_content

\* C10: every response with success=true carries a non-empty list; when
\* ExtractContent returned something that is not a list (None, an object, a
\* string) the request ends with one 500 response, and ExtractContent never
\* returns an empty list.
C10_SuccessHasLeads ==
    /\ \A i \in 1..Len(responses) :
         responses[i].success =>
             /\ responses[i].results.t = "list"
             /\ Len(responses[i].results.items) >= 1
    /\ (pc \in {"respond", "done"} /\ LlmCalls # {}) => results # ListValue(<<>>)
    /\ (pc = "done" /\ LlmCalls # {} /\ raised.by # "ExtractContent"
          /\ results.t # "list") => OneError(500)

C10_Witness ==
    /\ pc = "done"
    /\ reply = <<"[", "]">>
    /\ results = NoneValue
    /\ OneError(500)

\* the leads as ExtractContent returned them, before search touched them
ExtractedLeads == json_loads(json_str).val.items

Successes == { i \in 1..Len(responses) : responses[i].success }

\* C1 as stated: in a successful response every lead object has the id
\* str(position), also a lead the LLM gave an id of its own.
C1_Original ==
    \A i \in Successes :
        LET leads == responses[i].results.items
        IN  \A k \in 1..Len(leads) :
                leads[k].t = "dict" => leads[k].d.id = Str(k)

\* C1 as amended: in a successful response a lead object that came without an
\* "id" key has the id str(position), and a lead object that came with an
\* "id" key keeps the id the LLM gave it.
C1_IdsAssignedWhenMissing ==
    \A i \in Successes :
        LET leads == responses[i].results.items
        IN  /\ Len(leads) = Len(ExtractedLeads)
            /\ \A k \in 1..Len(leads) :
                 ExtractedLeads[k].t = "dict" =>
                     /\ leads[k].t = "dict"
                     /\ leads[k].d.id = IF ExtractedLeads[k].d.id = Absent
                                        THEN Str(k)
                                        ELSE ExtractedLeads[k].d.id

\* two leads, the second with an LLM id "1": both end with the id "1"
C1_Witness ==
    /\ pc = "done"
    /\ Successes = {1}
    /\ Len(ExtractedLeads) = 2
    /\ ExtractedLeads[1].d.id = Absent
    /\ ExtractedLeads[2].d.id = "1"
    /\ responses[1].results.items[1].d.id = "1"
    /\ responses[1].results.items[2].d.id = "1"

\* C8 as stated: in a successful response every lead object has every Lead
\* field and an id present.
C8_Original ==
    \A i \in Successes :
        LET leads == responses[i].results.items
        IN  \A k \in 1..Len(leads) :
                leads[k].t = "dict" =>
                    \A f \in LeadFields \cup {"id"} : leads[k].d[f] # Absent

\* C8 as amended: in a successful response every lead object has an id, and
\* every other field is as the LLM gave it: a field the LLM omitted stays
\* absent and is not defaulted to the empty string.
C8_FieldsForwardedAsParsed ==
    \A i \in Successes :
        LET leads == responses[i].results.items
        IN  \A k \in 1..Len(leads) :
                leads[k].t = "dict" =>
                    /\ leads[k].d.id # Absent
                    /\ ExtractedLeads[k].t = "dict"
                    /\ \A f \in LeadFields : leads[k].d[f] = ExtractedLeads[k].d[f]

\* a lead with only a name: it gets an id and its title stays absent
C8_Witness ==
    /\ pc = "done"
    /\ Successes = {1}
    /\ responses[1].results.items[1].t = "dict"
    /\ responses[1].results.items[1].d.name = "A"
    /\ responses[1].results.items[1].d.title = Absent
    /\ responses[1].results.items[1].d.id = "1"

----------------------------------------------------------------------------
(* Properties of Scrap_News, checked under SpecScrap *)

HasContentKey(result) == result.content # Absent
HasNonEmptyContent(result) == result.content # Absent /\ result.content # ""

\* Scrap_News was called with a client and the provider returned a results collection
ScrapReturnedResults ==
    /\ pc = "scrap_done"
    /\ tavily_client
    /\ tavily_response.kind = "dict"
    /\ tavily_response.has_results

\* the k-th block of four lines of the blob
BlobBlock(k) == SubSeq(retrieved_content, 4 * k - 3, 4 * k)

\* the block the result must give: url or "Unknown", title or "Unknown", content
ExpectedBlock(result) ==
    << <<"Source: ", IF result.url = Absent THEN "Unknown" ELSE result.url>>,
       <<"Title: ", IF result.title = Absent THEN "Unknown" ELSE result.title>>,
       <<"Content: ", result.content>>,
       <<"---", "">> >>

\* C6 as stated: the blob has exactly one block for each result whose content
\* is non-empty, in the order of the results, none for a result whose content
\* is absent or empty, and no error is raised.
C6_Original ==
    ScrapReturnedResults =>
        LET kept == SelectSeq(tavily_response.results, HasNonEmptyContent)
        IN  /\ raised = NoException
            /\ Len(retrieved_content) = 4 * Len(kept)
            /\ \A k \in 1..Len(kept) : BlobBlock(k) = ExpectedBlock(kept[k])

\* C6 as amended: the blob has exactly one block for each result that has a
\* "content" key, whatever its value (the empty string too), in the order of
\* the results, none for a result without the key, it is empty when no result
\* has the key, and no error is raised.
C6_BlockPerContentKey ==
    ScrapReturnedResults =>
        LET kept == SelectSeq(tavily_response.results, HasContentKey)
        IN  /\ raised = NoException
            /\ Len(retrieved_content) = 4 * Len(kept)
            /\ \A k \in 1..Len(kept) : BlobBlock(k) = ExpectedBlock(kept[k])
            /\ (kept = <<>>) => retrieved_content = <<>>

\* a result with empty content before one with content: two blocks, in order
C6_Witness ==
    /\ ScrapReturnedResults
    /\ Len(tavily_response.results) = 2
    /\ tavily_response.results[1].content = ""
    /\ tavily_response.results[2].content = "c"
    /\ Len(retrieved_content) = 8
    /\ retrieved_content[3] = <<"Content: ", "">>
    /\ retrieved_content[7] = <<"Content: ", "c">>

----------------------------------------------------------------------------
(* Properties of ExtractContent, checked under SpecExtract *)

\* the reply has a "[" with a "]" somewhere after it
HasBracketPair(text) ==
    \E i \in 1..Len(text) : \E j \in (i + 1)..Len(text) :
        text[i] = "[" /\ text[j] = "]"

LeftmostOpen(text) ==
    CHOOSE i \in 1..Len(text) :
        text[i] = "[" /\ \A j \in 1..(i - 1) : text[j] # "["

RightmostClose(text) ==
    CHOOSE i \in 1..Len(text) :
        text[i] = "]" /\ \A j \in (i + 1)..Len(text) : text[j] # "]"

\* the text ExtractContent is to parse
TextToParse(text) ==
    IF HasBracketPair(text)
    THEN SubSeq(text, LeftmostOpen(text), RightmostClose(text))
    ELSE text

\* the reply is one the claim C5 speaks of
Unusable(text) ==
    \/ ~HasBracketPair(text)
    \/ ~json_loads(TextToParse(text)).ok
    \/ Falsy(json_loads(TextToParse(text)).val)

\* C5 as stated: for a reply with no bracketed array, or that is no JSON, or
\* that parses to an empty value, ExtractContent does not raise and returns
\* an empty list.
C5_Original ==
    (pc = "extract_done" /\ Unusable(reply)) =>
        /\ raised = NoException
        /\ results = ListValue(<<>>)

\* C5 as amended: ExtractContent does not raise out of its parsing and never
\* returns an empty list.  For a reply whose text to parse is no JSON or
\* parses to an empty value it returns None and prints a diagnostic that ends
\* with the raw reply.  A reply with no bracketed array that is JSON of a
\* non-empty object or string is returned as that value, and one that is the
\* literal true gives None.
C5_UnusableReplyGivesNone ==
    pc = "extract_done" =>
        LET r == json_loads(TextToParse(reply))
        IN  /\ raised = NoException
            /\ results # ListValue(<<>>)
            /\ (~r.ok \/ Falsy(r.val)) =>
                   /\ results = NoneValue
                   /\ printed # <<>>
                   /\ printed[Len(printed)] = <<"Raw response: ", reply>>
            /\ (~HasBracketPair(reply) /\ r.ok /\ ~Falsy(r.val)) =>
                   /\ results.t # "list"
                   /\ results = IF r.val.t = "bool" THEN NoneValue ELSE r.val

\* a prose reply: None, with the diagnostic
C5_Witness ==
    /\ pc = "extract_done"
    /\ reply = <<"p", "w", "p">>
    /\ results = NoneValue
    /\ raised = NoException
    /\ printed = << <<"Failed to parse JSON from response", <<>> >>,
                    <<"Raw response: ", reply>> >>

ProseTokens == {"p", "w"}
ObjectTokens == {"O1", "O2", "O3", "{}"}

\* text is "[" object ("," object)* "]"
IsObjectArray(text) ==
    /\ Len(text) >= 3
    /\ Len(text) % 2 = 1
    /\ text[1] = "["
    /\ text[Len(text)] = "]"
    /\ \A i \in 2..(Len(text) - 1) :
         IF i % 2 = 0 THEN text[i] \in ObjectTokens ELSE text[i] = ","

\* the objects of such an array, in order
ObjectsOf(text) ==
    [k \in 1..((Len(text) - 1) \div 2) |-> TokenValue(text[2 * k])]

\* C7: when the reply has a "[" followed later by a "]", the text handed to
\* the JSON parser is the reply from its first "[" to its last "]"; otherwise
\* it is the whole reply.  A reply that is prose, one array of lead objects
\* and prose, with no other bracket, returns the objects of the array in
\* order.
C7_ParsesFirstToLastBracket ==
    pc = "extract_done" =>
        /\ json_str = TextToParse(reply)
        /\ HasBracketPair(reply) =>
             LET from == LeftmostOpen(reply)
                 to == RightmostClose(reply)
             IN  ( /\ \A i \in 1..(from - 1) : reply[i] \in ProseTokens
                   /\ \A i \in (to + 1)..Len(reply) : reply[i] \in ProseTokens
                   /\ IsObjectArray(SubSeq(reply, from, to)) )
                 => results = ListValue(ObjectsOf(SubSeq(reply, from, to)))

\* the reply of the spec's example, with two leads
C7_Witness ==
    /\ pc = "extract_done"
    /\ reply = <<"p", "w", "[", "O1", ",", "O3", "]", "w", "p">>
    /\ json_str = <<"[", "O1", ",", "O3", "]">>
    /\ results = ListValue(<<TokenValue("O1"), TokenValue("O3")>>)

====
